---- MODULE Spec2Model ----
(***************************************************************************)
(* Model of ovr_overlay: the process-wide initialization gate of           *)
(* Context (src/src/lib.rs) and the tracked-device property retrieval of   *)
(* SystemManager (src/src/system.rs), over a foreign OpenVR runtime whose  *)
(* answers are nondeterministic.                                           *)
(***************************************************************************)
EXTENDS Integers, Sequences, FiniteSets, TLC

(***************************************************************************)
(* Bounds                                                                  *)
(***************************************************************************)
NThreads == 2       \* threads that call Context::init / shutdown
MaxCalls == 2       \* Context::init calls per thread
MaxLen == 3         \* largest length the string probe reports
MaxText == 2        \* longest text argument handed to a manager operation
NameBufLen == 4     \* bytes of the localized-name buffer (100 in input.rs:241)
IndexBits == 8      \* modelled width of sys::TrackedDeviceIndex_t (u32 in the code)

Threads == 1..NThreads
Overlays == {1, 2}  \* OverlayHandle values

(***************************************************************************)
(* Foreign code spaces (symbols of ovr_overlay_sys used by the wrapper)    *)
(***************************************************************************)
VRInitError_None == "VRInitError_None"
InitCodes == {VRInitError_None, "VRInitError_Init_HmdNotFound"}

TrackedProp_Success == "TrackedProp_Success"
PropCodes == {TrackedProp_Success, "TrackedProp_WrongDataType",
              "TrackedProp_UnknownProperty", "TrackedProp_BufferTooSmall"}

VARIABLES
    \* ---- Context gate (lib.rs) ----
    INITIALIZED,     \* the bool inside the INITIALIZED mutex
    lock,            \* holder of the INITIALIZED mutex, 0 when free
    pc,              \* position of each thread inside Context::init
    errSlot,         \* the MaybeUninit<EVRInitError> slot of each thread's call
    result,          \* what each thread's last Context::init returned
    ctx,             \* number of live Context values each thread holds
    callNo,          \* number of Context::init calls each thread has started
    callsMade,       \* VR_Init calls made by each thread's current/last init
    contended,       \* whether the thread's last try_lock found the lock held
    overlapped,      \* <<holder, holder's callNo>> seen by the last try_lock
    \* ---- foreign runtime, as far as init/shutdown observe it ----
    vrInitCalls,     \* number of VR_Init calls issued
    vrInitActive,    \* threads currently inside VR_Init
    vrShutdownCalls, \* number of VR_Shutdown calls issued
    vrInitialized,   \* the runtime is initialized (VR_Init ok, no VR_Shutdown since)
    \* ---- property retrieval (system.rs) ----
    preq,            \* the retrieval in progress / last made
    ppc,             \* position inside the retrieval
    pcalls,          \* foreign accessor calls of this retrieval, in order
    perr,            \* the `err` slot
    plen,            \* `len` returned by the probe call
    data,            \* the Vec<u8> handed to the fill call
    allocated,       \* whether `data` has been allocated
    presult,         \* what the retrieval returned
    \* ---- handle wrappers and error adapters (lib.rs, errors.rs) ----
    idxArg,          \* argument of the last TrackedDeviceIndex::new
    idxRes,          \* what it returned
    indices,         \* inner values of the TrackedDeviceIndex values constructed
    errArg,          \* domain and code of the last <domain error>::new
    errRes,          \* what it returned
    \* ---- manager operations (overlay.rs, input.rs, applications.rs) ----
    mop,             \* the last manager operation and its arguments
    mcalls,          \* the foreign calls it made, in order
    mres,            \* what it returned (or that it panicked)
    rtAlpha          \* the runtime's alpha of each overlay

gateVars == <<INITIALIZED, lock, pc, errSlot, result, ctx, callNo, callsMade,
              contended, overlapped, vrInitCalls, vrInitActive,
              vrShutdownCalls, vrInitialized>>
propVars == <<preq, ppc, pcalls, perr, plen, data, allocated, presult>>
wrapVars == <<idxArg, idxRes, indices, errArg, errRes>>
mgrVars == <<mop, mcalls, mres, rtAlpha>>
vars == <<INITIALIZED, lock, pc, errSlot, result, ctx, callNo, callsMade,
          contended, overlapped, vrInitCalls, vrInitActive,
          vrShutdownCalls, vrInitialized,
          preq, ppc, pcalls, perr, plen, data, allocated, presult,
          idxArg, idxRes, indices, errArg, errRes,
          mop, mcalls, mres, rtAlpha>>

(***************************************************************************)
(* errors.rs                                                               *)
(***************************************************************************)
EVRInitError_new_AlwaysOk(err) == [ok |-> TRUE, inner |-> VRInitError_None]

\* EVRInitError::new: Ok(()) for VRInitError_None, Err(Self(err)) otherwise
EVRInitError_new(err) ==
    IF err = VRInitError_None
        THEN [ok |-> TRUE, inner |-> VRInitError_None]
        ELSE [ok |-> FALSE, inner |-> err]

ETrackedPropertyError_new_IgnoreTooSmall(err) ==
    IF err \in {TrackedProp_Success, "TrackedProp_BufferTooSmall"}
        THEN [ok |-> TRUE, inner |-> TrackedProp_Success]
        ELSE [ok |-> FALSE, inner |-> err]

ETrackedPropertyError_new_AlwaysOk(err) ==
    [ok |-> TRUE, inner |-> TrackedProp_Success]

\* ETrackedPropertyError::new
ETrackedPropertyError_new(err) ==
    IF err = TrackedProp_Success
        THEN [ok |-> TRUE, inner |-> TrackedProp_Success]
        ELSE [ok |-> FALSE, inner |-> err]

\* Result<Context, InitError>
NoResult == [tag |-> "None", err |-> "-"]
OkContext == [tag |-> "Ok", err |-> "-"]
AlreadyInitialized == [tag |-> "AlreadyInitialized", err |-> "-"]
Sys(e) == [tag |-> "Sys", err |-> e]

(***************************************************************************)
(* Initial state                                                           *)
(***************************************************************************)
NoReq == [ty |-> "-", name |-> [enum |-> "-", variant |-> "-"], index |-> 0]
NoPropResult == [tag |-> "None", val |-> <<>>, err |-> "-"]

Init ==
    /\ INITIALIZED = FALSE
    /\ lock = 0
    /\ pc = [t \in Threads |-> "idle"]
    /\ errSlot = [t \in Threads |-> "uninit"]
    /\ result = [t \in Threads |-> NoResult]
    /\ ctx = [t \in Threads |-> 0]
    /\ callNo = [t \in Threads |-> 0]
    /\ callsMade = [t \in Threads |-> 0]
    /\ contended = [t \in Threads |-> FALSE]
    /\ overlapped = [t \in Threads |-> <<0, 0>>]
    /\ vrInitCalls = 0
    /\ vrInitActive = {}
    /\ vrShutdownCalls = 0
    /\ vrInitialized = FALSE
    /\ preq = NoReq
    /\ ppc = "idle"
    /\ pcalls = <<>>
    /\ perr = TrackedProp_Success
    /\ plen = 0
    /\ data = <<>>
    /\ allocated = FALSE
    /\ presult = NoPropResult
    /\ idxArg = 0
    /\ idxRes = [ok |-> TRUE, inner |-> 0]
    /\ indices = {}
    /\ errArg = [domain |-> "-", code |-> "-"]
    /\ errRes = [ok |-> TRUE, inner |-> "-"]
    /\ mop = [op |-> "none", h |-> 0, f |-> <<>>, text |-> <<>>]
    /\ mcalls = <<>>
    /\ mres = [tag |-> "None", val |-> <<>>, err |-> "-"]
    /\ rtAlpha = [h \in Overlays |-> <<0, 10>>]

(***************************************************************************)
(* Context::init, lib.rs:41-60, in three steps: the try_lock and the read  *)
(* of the flag; the VR_Init call; its return and the rest of the function. *)
(***************************************************************************)
\* lib.rs:42: INITIALIZED.try_lock() is Ok(guard) exactly when no thread holds
\* the mutex (no holder can panic, so the mutex is never poisoned)
TryLockOk_Always == TRUE

TryLockOk == lock = 0

\* lib.rs:42-45 and 57-59
InitTryLock(t) ==
    /\ pc[t] = "idle"
    /\ callNo[t] < MaxCalls
    /\ callNo' = [callNo EXCEPT ![t] = @ + 1]
    /\ callsMade' = [callsMade EXCEPT ![t] = 0]
    /\ overlapped' = [overlapped EXCEPT ![t] =
                        IF lock # 0 THEN <<lock, callNo[lock]>> ELSE <<0, 0>>]
    /\ contended' = [contended EXCEPT ![t] = (lock # 0)]
    /\ IF TryLockOk
         THEN IF INITIALIZED
                THEN \* guard taken, flag set: return, guard dropped
                     /\ result' = [result EXCEPT ![t] = AlreadyInitialized]
                     /\ UNCHANGED <<lock, pc>>
                ELSE /\ lock' = t
                     /\ pc' = [pc EXCEPT ![t] = "locked"]
                     /\ result' = [result EXCEPT ![t] = NoResult]
         ELSE \* try_lock failed
              /\ result' = [result EXCEPT ![t] = AlreadyInitialized]
              /\ UNCHANGED <<lock, pc>>
    \* lib.rs:46: the error slot is a fresh, uninitialized local of each call
    /\ errSlot' = [errSlot EXCEPT ![t] = "uninit"]
    /\ UNCHANGED <<INITIALIZED, ctx, vrInitCalls, vrInitActive,
                   vrShutdownCalls, vrInitialized>>
    /\ UNCHANGED <<propVars, wrapVars, mgrVars>>

\* lib.rs:46-52: the call into sys::VR_Init
InitCallVRInit(t) ==
    /\ pc[t] = "locked"
    /\ pc' = [pc EXCEPT ![t] = "in_vr_init"]
    /\ vrInitCalls' = vrInitCalls + 1
    /\ vrInitActive' = vrInitActive \cup {t}
    /\ callsMade' = [callsMade EXCEPT ![t] = @ + 1]
    /\ UNCHANGED <<INITIALIZED, lock, errSlot, result, ctx, callNo, contended,
                   overlapped, vrShutdownCalls, vrInitialized>>
    /\ UNCHANGED <<propVars, wrapVars, mgrVars>>

\* lib.rs:53-56: VR_Init has written the error slot; EVRInitError::new(err)?;
\* Ok(Self {}); the guard goes out of scope on either path
InitReturn(t) ==
    /\ pc[t] = "in_vr_init"
    /\ \E e \in InitCodes :
         /\ errSlot' = [errSlot EXCEPT ![t] = e]
         /\ vrInitialized' = (vrInitialized \/ e = VRInitError_None)
         /\ IF EVRInitError_new(e).ok
              THEN /\ result' = [result EXCEPT ![t] = OkContext]
                   /\ ctx' = [ctx EXCEPT ![t] = @ + 1]
              ELSE /\ result' = [result EXCEPT ![t] = Sys(EVRInitError_new(e).inner)]
                   /\ ctx' = ctx
    /\ vrInitActive' = vrInitActive \ {t}
    /\ lock' = IF lock = t THEN 0 ELSE lock
    /\ pc' = [pc EXCEPT ![t] = "idle"]
    /\ UNCHANGED <<INITIALIZED, callNo, callsMade, contended, overlapped,
                   vrInitCalls, vrShutdownCalls>>
    /\ UNCHANGED <<propVars, wrapVars, mgrVars>>

DropContext_Shutdown(t) ==
    /\ pc[t] = "idle"
    /\ ctx[t] > 0
    /\ ctx' = [ctx EXCEPT ![t] = @ - 1]
    /\ vrShutdownCalls' = vrShutdownCalls + 1
    /\ vrInitialized' = FALSE
    /\ UNCHANGED <<INITIALIZED, lock, pc, errSlot, result, callNo, callsMade,
                   contended, overlapped, vrInitCalls, vrInitActive>>
    /\ UNCHANGED <<propVars, wrapVars, mgrVars>>

\* lib.rs:34-39: Context has no Drop impl; a Context going out of scope
DropContext(t) ==
    /\ pc[t] = "idle"
    /\ ctx[t] > 0
    /\ ctx' = [ctx EXCEPT ![t] = @ - 1]
    /\ UNCHANGED <<INITIALIZED, lock, pc, errSlot, result, callNo, callsMade,
                   contended, overlapped, vrInitCalls, vrInitActive,
                   vrShutdownCalls, vrInitialized>>
    /\ UNCHANGED <<propVars, wrapVars, mgrVars>>

\* lib.rs:64-66: Context::shutdown(self)
Shutdown(t) ==
    /\ pc[t] = "idle"
    /\ ctx[t] > 0
    /\ ctx' = [ctx EXCEPT ![t] = @ - 1]
    /\ vrShutdownCalls' = vrShutdownCalls + 1
    /\ vrInitialized' = FALSE
    /\ UNCHANGED <<INITIALIZED, lock, pc, errSlot, result, callNo, callsMade,
                   contended, overlapped, vrInitCalls, vrInitActive>>
    /\ UNCHANGED <<propVars, wrapVars, mgrVars>>

Next ==
    \/ \E t \in Threads : InitTryLock(t)
    \/ \E t \in Threads : InitCallVRInit(t)
    \/ \E t \in Threads : InitReturn(t)
    \/ \E t \in Threads : DropContext(t)
    \/ \E t \in Threads : Shutdown(t)

Spec == Init /\ [][Next]_vars

(***************************************************************************)
(* Property retrieval, system.rs.  Values are written as the sequence of   *)
(* scalars they occupy in memory: a bool, f32, i32 or u64 is one scalar, a *)
(* 3x4 matrix is its 12 entries in row-major order, a string its bytes.    *)
(***************************************************************************)
Indices == {0, 1}           \* TrackedDeviceIndex values; 0 is the HMD
Bytes == {0, 97}            \* NUL and one other byte

FixedTypes == {"bool", "f32", "i32", "u64", "Matrix3x4"}
PropTypes == FixedTypes \cup {"CString"}

\* system.rs:171-344: the typed identifier enums (some variants of each)
TypedNames ==
    { [enum |-> "Bool", variant |-> "WillDriftInYaw"],
      [enum |-> "Int32", variant |-> "DeviceClass"],
      [enum |-> "Uint64", variant |-> "HardwareRevision"],
      [enum |-> "Matrix34", variant |-> "StatusDisplayTransform"],
      [enum |-> "String", variant |-> "HardwareRevision"] }

\* system.rs:160 and 358-362: a variant's discriminant is that of
\* sys::ETrackedDeviceProperty::Prop_<variant>_<enum>, and the conversion
\* transmutes; a raw sys::ETrackedDeviceProperty converts to itself
ToSys(name) ==
    IF name.enum = "raw" THEN name.variant
    ELSE "Prop_" \o name.variant \o "_" \o name.enum

\* system.rs:376-377: any sys::ETrackedDeviceProperty is a property name
RawNames == { [enum |-> "raw", variant |-> ToSys(n)] : n \in TypedNames }

\* system.rs:370-374: impl_property!(enum; output type)
OutputOf(enum) ==
    CASE enum = "Bool" -> "bool"
      [] enum = "Int32" -> "i32"
      [] enum = "Uint64" -> "u64"
      [] enum = "Matrix34" -> "Matrix3x4"
      [] enum = "String" -> "CString"

\* system.rs:364-365 and 376-377: the (name, output type) pairs for which
\* TrackedDevicePropertyName<T> is implemented
Requests ==
    { [ty |-> OutputOf(n.enum), name |-> n, index |-> i] :
          n \in TypedNames, i \in Indices }
    \cup { [ty |-> ty, name |-> n, index |-> i] :
          ty \in PropTypes, n \in RawNames, i \in Indices }

\* the value category the runtime documents for a property symbol
CategoryOf(sym) ==
    LET n == CHOOSE x \in TypedNames : ToSys(x) = sym IN OutputOf(n.enum)

\* system.rs:49-52, 67, 83: the foreign accessor each output type calls
Accessor(ty) ==
    CASE ty = "bool" -> "GetBoolTrackedDeviceProperty"
      [] ty = "f32" -> "GetFloatTrackedDeviceProperty"
      [] ty = "i32" -> "GetInt32TrackedDeviceProperty"
      [] ty = "u64" -> "GetUint64TrackedDeviceProperty"
      [] ty = "Matrix3x4" -> "GetMatrix34TrackedDeviceProperty"
      [] ty = "CString" -> "GetStringTrackedDeviceProperty"

\* what a fixed-size accessor can hand back, as memory
ForeignValues(ty) ==
    IF ty = "Matrix3x4"
        THEN { <<1, 0, 0, 0, 0, 1, 0, 0, 0, 0, 1, 0>>,
               <<0, 0, 0, 5, 0, 0, 0, 6, 0, 0, 0, 7>> }
        ELSE { <<0>>, <<1>> }

\* system.rs:43 and 70, pose.rs:22-27: Ok(res) for the scalars; for the
\* matrix res.into() transmutes HmdMatrix34_t { m: [[f32; 4]; 3] } into
\* Matrix3x4([[f32; 4]; 3]), which keeps the 12 entries in place
IntoResult(ty, res) ==
    IF ty = "Matrix3x4" THEN [i \in 1..12 |-> res[i]] ELSE res

PropOk(v) == [tag |-> "Ok", val |-> v, err |-> "-"]
PropErr(e) == [tag |-> "Err", val |-> <<>>, err |-> e]

Call(fn, req, buf, buflen, len, err, ret, wrote) ==
    [fn |-> fn, index |-> req.index, prop |-> ToSys(req.name), buf |-> buf,
     buflen |-> buflen, len |-> len, err |-> err, ret |-> ret, wrote |-> wrote]

\* system.rs:35-44 and 57-71 through get_tracked_device_property (389-398)
\* and TrackedDevicePropertyName::get (138-140)
GetFixed ==
    /\ ppc \in {"idle", "done"}
    /\ \E req \in Requests :
         /\ req.ty \in FixedTypes
         /\ \E e \in PropCodes, res \in ForeignValues(req.ty) :
              /\ preq' = req
              /\ perr' = e
              /\ pcalls' = <<Call(Accessor(req.ty), req, "none", 0, 0, e, res, <<>>)>>
              /\ presult' = IF ETrackedPropertyError_new(e).ok
                              THEN PropOk(IntoResult(req.ty, res))
                              ELSE PropErr(ETrackedPropertyError_new(e).inner)
    /\ ppc' = "done"
    /\ plen' = 0
    /\ data' = <<>>
    /\ allocated' = FALSE
    /\ UNCHANGED <<gateVars, wrapVars, mgrVars>>

\* system.rs:92: vec![0; len as usize]
Alloc_OneMore(len) == [i \in 1..(len + 1) |-> 0]

Alloc(len) == [i \in 1..len |-> 0]

StringProbe_NoCheck ==
    /\ ppc \in {"idle", "done"}
    /\ \E req \in Requests :
         /\ req.ty = "CString"
         /\ \E e \in PropCodes, n \in 0..MaxLen :
              /\ preq' = req
              /\ perr' = e
              /\ plen' = n
              /\ pcalls' = <<Call(Accessor("CString"), req, "null", 0, 0, e, <<n>>, <<>>)>>
              /\ data' = Alloc(n)
              /\ allocated' = TRUE
              /\ ppc' = "probed"
              /\ presult' = NoPropResult
    /\ UNCHANGED <<gateVars, wrapVars, mgrVars>>

\* system.rs:81-92: the probe call with a null buffer of length 0, the check
\* of its error code, the allocation
StringProbe ==
    /\ ppc \in {"idle", "done"}
    /\ \E req \in Requests :
         /\ req.ty = "CString"
         /\ \E e \in PropCodes, n \in 0..MaxLen :
              /\ preq' = req
              /\ perr' = e
              /\ plen' = n
              /\ pcalls' = <<Call(Accessor("CString"), req, "null", 0, 0, e, <<n>>, <<>>)>>
              /\ IF ETrackedPropertyError_new(e).ok
                   THEN /\ data' = Alloc(n)
                        /\ allocated' = TRUE
                        /\ ppc' = "probed"
                        /\ presult' = NoPropResult
                   ELSE /\ data' = <<>>
                        /\ allocated' = FALSE
                        /\ ppc' = "done"
                        /\ presult' = PropErr(ETrackedPropertyError_new(e).inner)
    /\ UNCHANGED <<gateVars, wrapVars, mgrVars>>

\* all byte sequences of length at most n
RECURSIVE SeqsUpTo(_)
SeqsUpTo(n) ==
    IF n = 0 THEN {<<>>}
    ELSE LET shorter == SeqsUpTo(n - 1) IN
         shorter \cup { Append(w, b) : w \in {x \in shorter : Len(x) = n - 1},
                                       b \in Bytes }

\* the buffer after the runtime wrote w at its start
Overwrite(buf, w) ==
    [i \in 1..Len(buf) |-> IF i <= Len(w) THEN w[i] ELSE buf[i]]

\* CString::from_vec_with_nul (system.rs:104): Ok exactly when the first
\* 0 byte of the vector is its last element
FromVecWithNul(v) ==
    LET nuls == {i \in 1..Len(v) : v[i] = 0} IN
    IF nuls = {} THEN [ok |-> FALSE, why |-> "NotNulTerminated"]
    ELSE LET pos == CHOOSE i \in nuls : \A j \in nuls : i <= j IN
         IF pos = Len(v) THEN [ok |-> TRUE, why |-> "-"]
         ELSE [ok |-> FALSE, why |-> "InteriorNul"]

\* system.rs:98: the length argument of the fill call
FillLen == plen

\* system.rs:93-104: the fill call, the check of its error code, the
\* conversion of the buffer with expect("missing nul byte from openvr!")
StringFill ==
    /\ ppc = "probed"
    /\ \E e \in PropCodes, w \in SeqsUpTo(FillLen) :
         /\ perr' = e
         /\ data' = Overwrite(data, w)
         /\ pcalls' = Append(pcalls,
                Call(Accessor("CString"), preq, "data", Len(data), FillLen, e,
                     <<Len(w)>>, w))
         /\ IF ~ETrackedPropertyError_new(e).ok
              THEN /\ presult' = PropErr(ETrackedPropertyError_new(e).inner)
                   /\ ppc' = "done"
              ELSE IF FromVecWithNul(data').ok
                     THEN /\ presult' = PropOk(data')
                          /\ ppc' = "done"
                     ELSE /\ presult' = NoPropResult
                          /\ ppc' = "panicked"
    /\ UNCHANGED <<preq, plen, allocated>>
    /\ UNCHANGED <<gateVars, wrapVars, mgrVars>>

NextProp ==
    \/ GetFixed
    \/ StringProbe
    \/ StringFill

SpecProp == Init /\ [][NextProp]_vars

(***************************************************************************)
(* Claims about the Context gate                                           *)
(***************************************************************************)
RECURSIVE SumCtx(_)
SumCtx(S) == IF S = {} THEN 0
             ELSE LET t == CHOOSE x \in S : TRUE IN ctx[t] + SumCtx(S \ {t})

LiveContexts == SumCtx(Threads)

\* C1: at most one live Context exists; while the runtime is initialized
\* (an init returned Ok and shutdown was not called since) no further
\* Context::init gets past the gate to VR_Init.
C1_AtMostOneLiveContext ==
    /\ LiveContexts <= 1
    /\ vrInitialized => \A t \in Threads : pc[t] = "idle"

\* C2: when every thread has called Context::init once, every VR_Init call
\* succeeded and nothing was shut down, exactly one call returned Ok and every
\* other returned AlreadyInitialized.
FirstRoundOver ==
    /\ \A t \in Threads : callNo[t] = 1 /\ pc[t] = "idle"
    /\ \A t \in Threads : errSlot[t] \in {"uninit", VRInitError_None}
    /\ vrShutdownCalls = 0

C2_ExactlyOneInitSucceeds ==
    FirstRoundOver =>
        /\ Cardinality({t \in Threads : result[t] = OkContext}) = 1
        /\ \A t \in Threads : result[t] \in {OkContext, AlreadyInitialized}

\* C3: a Context::init that started while another thread's init was in
\* progress has a result only once that other call is over.
C3_SecondInitBlocks ==
    \A u \in Threads :
        (pc[u] = "idle" /\ overlapped[u][1] # 0) =>
            LET h == overlapped[u][1] IN
            ~(callNo[h] = overlapped[u][2] /\ pc[h] # "idle")

\* C4: an init whose try_lock fails returns AlreadyInitialized and calls
\* VR_Init zero times; a thread inside VR_Init holds the lock, so at most
\* one VR_Init call is in progress.
C4_ContentionIsAlreadyInitialized ==
    /\ \A t \in Threads :
          contended[t] => /\ pc[t] = "idle"
                          /\ result[t] = AlreadyInitialized
                          /\ callsMade[t] = 0
    /\ \A t \in Threads : pc[t] \in {"locked", "in_vr_init"} => lock = t
    /\ \A t \in vrInitActive : lock = t
    /\ Cardinality(vrInitActive) <= 1

C4_Witness ==
    \E t, u \in Threads :
        /\ contended[t] /\ result[t] = AlreadyInitialized
        /\ overlapped[t][1] = u
        /\ u \in vrInitActive

\* C5: dropping a Context changes nothing in the foreign runtime (no call,
\* still initialized); the VR_Shutdown count changes only in a step of
\* Context::shutdown.
C5_DropIsNotShutdown ==
    [][ /\ \A t \in Threads :
             DropContext(t) =>
                UNCHANGED <<vrInitCalls, vrInitActive, vrShutdownCalls,
                            vrInitialized>>
        /\ vrShutdownCalls' # vrShutdownCalls => \E t \in Threads : Shutdown(t)
      ]_vars

\* a Context was produced, none is live, and VR_Shutdown was never called
C5_Witness ==
    /\ \E t \in Threads : result[t] = OkContext
    /\ vrInitialized
    /\ vrShutdownCalls = 0
    /\ LiveContexts = 0

\* C6: when VR_Init reports a code other than VRInitError_None the init
\* returns Sys(that code), no Context appears, the lock is free and the flag
\* is as before; while only failures have happened, an uncontended init goes
\* on to VR_Init.
OnlyFailuresSoFar ==
    /\ \E u \in Threads : result[u].tag = "Sys"
    /\ ~vrInitialized
    /\ vrShutdownCalls = 0

C6_FailedInitLeavesGateOpen ==
    [][ \A t \in Threads :
          /\ (InitReturn(t) /\ errSlot'[t] # VRInitError_None) =>
                /\ result'[t] = Sys(errSlot'[t])
                /\ ctx' = ctx
                /\ lock' = 0
                /\ INITIALIZED' = INITIALIZED
          /\ (InitTryLock(t) /\ lock = 0 /\ OnlyFailuresSoFar) =>
                /\ pc'[t] = "locked"
                /\ result'[t] # AlreadyInitialized
      ]_vars

C6_Witness ==
    \E t, u \in Threads :
        /\ result[u].tag = "Sys" /\ result[u].err # VRInitError_None
        /\ ~vrInitialized /\ vrShutdownCalls = 0
        /\ pc[t] = "in_vr_init" /\ callNo[t] = 2 /\ callsMade[t] = 1

(***************************************************************************)
(* Claims about property retrieval                                         *)
(***************************************************************************)
\* C7: a fixed-size retrieval makes exactly one call, of the accessor of the
\* requested type, for the given device index and property (on the typed
\* path a property of that category); it returns Ok with the value handed
\* back exactly when the error slot is TrackedProp_Success, and Err with the
\* reported code otherwise.
C7_FixedRetrievalOneCall ==
    (ppc = "done" /\ preq.ty \in FixedTypes) =>
        /\ Len(pcalls) = 1
        /\ pcalls[1].fn = Accessor(preq.ty)
        /\ pcalls[1].index = preq.index
        /\ pcalls[1].prop = ToSys(preq.name)
        /\ preq.name.enum # "raw" => CategoryOf(pcalls[1].prop) = preq.ty
        /\ presult.tag \in {"Ok", "Err"}
        /\ presult.tag = "Ok" <=> pcalls[1].err = TrackedProp_Success
        /\ presult.tag = "Ok" => presult.val = pcalls[1].ret
        /\ pcalls[1].err # TrackedProp_Success => presult = PropErr(pcalls[1].err)

C7_Witness ==
    /\ ppc = "done" /\ preq.ty = "Matrix3x4"
    /\ preq.name.enum = "raw"
    /\ CategoryOf(ToSys(preq.name)) = "CString"
    /\ Len(pcalls) = 1
    /\ pcalls[1].err = "TrackedProp_WrongDataType"
    /\ presult = PropErr("TrackedProp_WrongDataType")

\* C8: when the probe call of a text retrieval reports a non-success code the
\* retrieval is over with Err of that code: one foreign call, no buffer.
C8_ProbeFailureShortCircuits ==
    (preq.ty = "CString" /\ Len(pcalls) >= 1
        /\ pcalls[1].err # TrackedProp_Success) =>
        /\ ppc = "done"
        /\ presult = PropErr(pcalls[1].err)
        /\ Len(pcalls) = 1
        /\ ~allocated
        /\ data = <<>>

C8_Witness ==
    /\ preq.ty = "CString" /\ ppc = "done"
    /\ Len(pcalls) = 1
    /\ pcalls[1].buf = "null" /\ pcalls[1].len = 0 /\ pcalls[1].ret = <<2>>
    /\ pcalls[1].err = "TrackedProp_UnknownProperty"
    /\ presult = PropErr("TrackedProp_UnknownProperty")

\* C9: the fill call follows a successful probe that reported length n, is
\* made for the same device and property with a buffer of n bytes and length
\* argument n, and when it reports an error the retrieval returns Err of that
\* code.
C9_FillUsesReportedLength ==
    (preq.ty = "CString" /\ Len(pcalls) = 2) =>
        /\ pcalls[1].err = TrackedProp_Success
        /\ pcalls[2].fn = pcalls[1].fn
        /\ pcalls[2].index = pcalls[1].index
        /\ pcalls[2].prop = pcalls[1].prop
        /\ pcalls[2].buf = "data"
        /\ pcalls[2].buflen = pcalls[1].ret[1]
        /\ pcalls[2].len = pcalls[1].ret[1]
        /\ Len(data) = pcalls[1].ret[1]
        /\ pcalls[2].err # TrackedProp_Success =>
              /\ ppc = "done"
              /\ presult = PropErr(pcalls[2].err)

C9_Witness ==
    /\ preq.ty = "CString" /\ Len(pcalls) = 2
    /\ pcalls[1].ret = <<3>> /\ pcalls[2].buflen = 3 /\ pcalls[2].len = 3
    /\ pcalls[2].err = "TrackedProp_UnknownProperty"
    /\ ppc = "done"
    /\ presult = PropErr("TrackedProp_UnknownProperty")

\* the runtime wrote a terminated string: bytes other than 0, then one 0
WroteTerminatedString(w) ==
    /\ Len(w) >= 1
    /\ w[Len(w)] = 0
    /\ \A i \in 1..(Len(w) - 1) : w[i] # 0

\* C10: a text retrieval panics only when both calls reported success and
\* the buffer holds no terminator within the reported length, and never when
\* the runtime wrote a terminated string into the buffer.
C10_PanicOnlyWithoutTerminator ==
    ppc = "panicked" =>
        /\ Len(pcalls) = 2
        /\ pcalls[1].err = TrackedProp_Success
        /\ pcalls[2].err = TrackedProp_Success
        /\ \A i \in 1..Len(data) : data[i] # 0
        /\ ~WroteTerminatedString(pcalls[2].wrote)

\* C11 (as claimed): a text retrieval that surfaces buffer-too-small has seen
\* it twice: on some call, and again on a retry of that call with a larger
\* buffer.
C11_BufferTooSmallRetriedOnce ==
    (preq.ty = "CString" /\ ppc = "done"
        /\ presult = PropErr("TrackedProp_BufferTooSmall")) =>
        \E i \in 1..(Len(pcalls) - 1) :
            /\ pcalls[i].err = "TrackedProp_BufferTooSmall"
            /\ pcalls[i + 1].buflen > pcalls[i].buflen
            /\ pcalls[i + 1].err # TrackedProp_Success

\* C11 (amended): a foreign call of a text retrieval that reports
\* buffer-too-small is the last call of the retrieval, which returns Err of
\* that code at once; no call is made with a buffer larger than the probe
\* reported.
C11_BufferTooSmallSurfacedAtOnce ==
    (preq.ty = "CString"
        /\ \E i \in 1..Len(pcalls) : pcalls[i].err = "TrackedProp_BufferTooSmall") =>
        /\ ppc = "done"
        /\ pcalls[Len(pcalls)].err = "TrackedProp_BufferTooSmall"
        /\ \A i \in 1..(Len(pcalls) - 1) : pcalls[i].err = TrackedProp_Success
        /\ presult = PropErr("TrackedProp_BufferTooSmall")
        /\ Len(pcalls) <= 2
        /\ \A i \in 1..Len(pcalls) : pcalls[i].buflen <= pcalls[1].ret[1]

C11_Witness ==
    /\ preq.ty = "CString" /\ ppc = "done"
    /\ Len(pcalls) = 2
    /\ pcalls[2].err = "TrackedProp_BufferTooSmall"
    /\ pcalls[2].buflen = 2
    /\ presult = PropErr("TrackedProp_BufferTooSmall")

(***************************************************************************)
(* Handle wrappers (lib.rs) and error adapters (errors.rs)                 *)
(***************************************************************************)
\* sys::k_unTrackedDeviceIndexInvalid is the all-ones value of the index type,
\* sys::k_unTrackedDeviceIndex_Hmd is 0
k_unTrackedDeviceIndexInvalid == 2 ^ IndexBits - 1
k_unTrackedDeviceIndex_Hmd == 0

\* some values of sys::TrackedDeviceIndex_t (u32)
IndexValues == {k_unTrackedDeviceIndex_Hmd, 1, 64,
                k_unTrackedDeviceIndexInvalid - 1,
                k_unTrackedDeviceIndexInvalid}

TrackedDeviceIndex_new_NoCheck(index) == [ok |-> TRUE, inner |-> index]

\* lib.rs:129-136; the () of Err(()) is written as inner 0
TrackedDeviceIndex_new(index) ==
    IF index = k_unTrackedDeviceIndexInvalid
        THEN [ok |-> FALSE, inner |-> 0]
        ELSE [ok |-> TRUE, inner |-> index]

\* a call of TrackedDeviceIndex::new
IndexNew ==
    \E i \in IndexValues :
        /\ idxArg' = i
        /\ idxRes' = TrackedDeviceIndex_new(i)
        /\ indices' = IF TrackedDeviceIndex_new(i).ok
                        THEN indices \cup {TrackedDeviceIndex_new(i).inner}
                        ELSE indices
        /\ UNCHANGED <<errArg, errRes>>
        /\ UNCHANGED <<gateVars, propVars, mgrVars>>

\* lib.rs:125: #[derive(From)] gives TrackedDeviceIndex::from(raw) = Self(raw)
IndexFrom ==
    \E i \in IndexValues :
        /\ indices' = indices \cup {i}
        /\ UNCHANGED <<idxArg, idxRes, errArg, errRes>>
        /\ UNCHANGED <<gateVars, propVars, mgrVars>>

\* lib.rs:127: the tuple field is pub, so TrackedDeviceIndex(raw) is open to
\* every user of the crate
IndexTuple ==
    \E i \in IndexValues :
        /\ indices' = indices \cup {i}
        /\ UNCHANGED <<idxArg, idxRes, errArg, errRes>>
        /\ UNCHANGED <<gateVars, propVars, mgrVars>>

VROverlayError_None == "VROverlayError_None"
OverlayCodes == {VROverlayError_None, "VROverlayError_UnknownOverlay",
                 "VROverlayError_RequestFailed"}
VRInputError_None == "VRInputError_None"
VRInputError_InvalidParam == "VRInputError_InvalidParam"
InputCodes == {VRInputError_None, "VRInputError_NameNotFound",
               VRInputError_InvalidParam}

EVROverlayError_new_AlwaysOk(err) == [ok |-> TRUE, inner |-> VROverlayError_None]

\* errors.rs:38-44
EVROverlayError_new(err) ==
    IF err = VROverlayError_None
        THEN [ok |-> TRUE, inner |-> VROverlayError_None]
        ELSE [ok |-> FALSE, inner |-> err]

\* errors.rs:101-107
EVRInputError_new(err) ==
    IF err = VRInputError_None
        THEN [ok |-> TRUE, inner |-> VRInputError_None]
        ELSE [ok |-> FALSE, inner |-> err]

\* the error domains of errors.rs and their code spaces
ErrorDomains == {"EVRInitError", "EVROverlayError", "ETrackedPropertyError",
                 "EVRInputError"}

CodesOf(domain) ==
    CASE domain = "EVRInitError" -> InitCodes
      [] domain = "EVROverlayError" -> OverlayCodes
      [] domain = "ETrackedPropertyError" -> PropCodes
      [] domain = "EVRInputError" -> InputCodes

DomainNew(domain, code) ==
    CASE domain = "EVRInitError" -> EVRInitError_new(code)
      [] domain = "EVROverlayError" -> EVROverlayError_new(code)
      [] domain = "ETrackedPropertyError" -> ETrackedPropertyError_new(code)
      [] domain = "EVRInputError" -> EVRInputError_new(code)

\* a call of <domain error>::new
ErrorNew ==
    \E d \in ErrorDomains :
        \E c \in CodesOf(d) :
            /\ errArg' = [domain |-> d, code |-> c]
            /\ errRes' = DomainNew(d, c)
            /\ UNCHANGED <<idxArg, idxRes, indices>>
            /\ UNCHANGED <<gateVars, propVars, mgrVars>>

NextWrap ==
    \/ IndexNew
    \/ IndexFrom
    \/ IndexTuple
    \/ ErrorNew

SpecWrap == Init /\ [][NextWrap]_vars

(***************************************************************************)
(* Claims about the wrappers and adapters                                  *)
(***************************************************************************)
\* C12: TrackedDeviceIndex::new(i) is Err for the invalid sentinel and
\* Ok with inner value i for every other i.
C12_IndexNewRejectsSentinel ==
    /\ idxArg = k_unTrackedDeviceIndexInvalid => ~idxRes.ok
    /\ idxArg # k_unTrackedDeviceIndexInvalid =>
          idxRes.ok /\ idxRes.inner = idxArg

C12_Witness ==
    /\ idxArg = k_unTrackedDeviceIndexInvalid /\ ~idxRes.ok
    /\ k_unTrackedDeviceIndexInvalid - 1 \in indices

\* C13: no constructed TrackedDeviceIndex holds the invalid sentinel.
C13_NoSentinelIndex ==
    k_unTrackedDeviceIndexInvalid \notin indices

\* the success sentinel of each domain
SuccessOf(domain) ==
    CASE domain = "EVRInitError" -> "VRInitError_None"
      [] domain = "EVROverlayError" -> "VROverlayError_None"
      [] domain = "ETrackedPropertyError" -> "TrackedProp_Success"
      [] domain = "EVRInputError" -> "VRInputError_None"

\* C14: in each domain new(code) is Ok exactly for the domain's success
\* sentinel and otherwise Err whose inner() is the code; a step of new
\* changes nothing but its own result.
C14_AdapterResult ==
    errArg.domain \in ErrorDomains =>
        /\ errRes.ok <=> errArg.code = SuccessOf(errArg.domain)
        /\ ~errRes.ok => errRes.inner = errArg.code

C14_AdapterIsPure ==
    [][ErrorNew => UNCHANGED <<gateVars, propVars, idxArg, idxRes, indices>>]_vars

C14_ErrorAdapters == []C14_AdapterResult /\ C14_AdapterIsPure

C14_Witness ==
    /\ errArg = [domain |-> "EVROverlayError", code |-> "VROverlayError_RequestFailed"]
    /\ ~errRes.ok /\ errRes.inner = "VROverlayError_RequestFailed"

(***************************************************************************)
(* Manager operations: overlay.rs, input.rs, applications.rs.  An f32 is   *)
(* written <<nan, tenths>>: <<0, 5>> is 0.5 and <<1, 0>> is NaN.  Every    *)
(* value an operation returns is a tuple of integers.                      *)
(***************************************************************************)
F32(tenths) == <<0, tenths>>
NaN == <<1, 0>>
F32Values == {F32(-1), F32(0), F32(5), F32(10), F32(11), NaN}

InUnitRange_Exclusive(x) == x[1] = 0 /\ 0 <= x[2] /\ x[2] < 10

\* overlay.rs:102: (0.0..=1.0).contains(&alpha); false for NaN
InUnitRange(x) == x[1] = 0 /\ 0 <= x[2] /\ x[2] <= 10

MgrOp(op, h, f, text) == [op |-> op, h |-> h, f |-> f, text |-> text]
MgrCall(fn, h, f, text, err) ==
    [fn |-> fn, h |-> h, f |-> f, text |-> text, err |-> err]
MgrOk(v) == [tag |-> "Ok", val |-> v, err |-> "-"]
MgrErr(e) == [tag |-> "Err", val |-> <<>>, err |-> e]
MgrPanic == [tag |-> "Panic", val |-> <<>>, err |-> "-"]

\* Result<(), EVROverlayError> of EVROverlayError::new(err)
OverlayUnit(e) ==
    IF EVROverlayError_new(e).ok THEN MgrOk(<<>>)
    ELSE MgrErr(EVROverlayError_new(e).inner)

OverlayValue_Default(e, slot) == MgrOk(slot)

\* EVROverlayError::new(err)?; Ok(slot)
OverlayValue(e, slot) ==
    IF EVROverlayError_new(e).ok THEN MgrOk(slot)
    ELSE MgrErr(EVROverlayError_new(e).inner)

SetOpacity_ReturnsErr ==
    \E h \in Overlays, a \in F32Values :
        /\ mop' = MgrOp("set_opacity", h, a, <<>>)
        /\ IF ~InUnitRange(a)
             THEN /\ mcalls' = <<>>
                  /\ mres' = MgrErr("VROverlayError_InvalidParameter")
                  /\ rtAlpha' = rtAlpha
             ELSE \E e \in OverlayCodes :
                  /\ mcalls' = <<MgrCall("SetOverlayAlpha", h, a, <<>>, e)>>
                  /\ mres' = OverlayUnit(e)
                  /\ rtAlpha' = IF e = VROverlayError_None
                                  THEN [rtAlpha EXCEPT ![h] = a] ELSE rtAlpha
        /\ UNCHANGED <<gateVars, propVars, wrapVars>>

\* overlay.rs:97-107; a SetOverlayAlpha that reports no error has stored alpha
SetOpacity ==
    \E h \in Overlays, a \in F32Values :
        /\ mop' = MgrOp("set_opacity", h, a, <<>>)
        /\ IF ~InUnitRange(a)
             THEN /\ mcalls' = <<>>
                  /\ mres' = MgrPanic
                  /\ rtAlpha' = rtAlpha
             ELSE \E e \in OverlayCodes :
                  /\ mcalls' = <<MgrCall("SetOverlayAlpha", h, a, <<>>, e)>>
                  /\ mres' = OverlayUnit(e)
                  /\ rtAlpha' = IF e = VROverlayError_None
                                  THEN [rtAlpha EXCEPT ![h] = a] ELSE rtAlpha
        /\ UNCHANGED <<gateVars, propVars, wrapVars>>

\* overlay.rs:109-114; a GetOverlayAlpha that reports no error has written the
\* stored alpha into the slot, one that reports an error may have written
\* anything or nothing
Opacity ==
    \E h \in Overlays, e \in OverlayCodes, garbage \in F32Values :
        LET slot == IF e = VROverlayError_None THEN rtAlpha[h] ELSE garbage IN
        /\ mop' = MgrOp("opacity", h, <<>>, <<>>)
        /\ mcalls' = <<MgrCall("GetOverlayAlpha", h, <<>>, <<>>, e)>>
        /\ mres' = OverlayValue(e, slot)
        /\ UNCHANGED rtAlpha
        /\ UNCHANGED <<gateVars, propVars, wrapVars>>

\* overlay.rs:64-78; the range check of lines 69-71 is commented out
SetCurvature ==
    \E h \in Overlays, c \in F32Values, e \in OverlayCodes :
        /\ mop' = MgrOp("set_curvature", h, c, <<>>)
        /\ mcalls' = <<MgrCall("SetOverlayCurvature", h, c, <<>>, e)>>
        /\ mres' = OverlayUnit(e)
        /\ UNCHANGED rtAlpha
        /\ UNCHANGED <<gateVars, propVars, wrapVars>>

\* the f32 getters of overlay.rs: a slot initialised to 0.0, one foreign call
\* that writes the slot, EVROverlayError::new(err)?, Ok(slot)
OverlayGetF32(op, fn) ==
    \E h \in Overlays, e \in OverlayCodes, slot \in F32Values :
        /\ mop' = MgrOp(op, h, <<>>, <<>>)
        /\ mcalls' = <<MgrCall(fn, h, <<>>, <<>>, e)>>
        /\ mres' = OverlayValue(e, slot)
        /\ UNCHANGED rtAlpha
        /\ UNCHANGED <<gateVars, propVars, wrapVars>>

\* overlay.rs:80-92
Curvature == OverlayGetF32("curvature", "GetOverlayCurvature")

\* overlay.rs:116-125
Width == OverlayGetF32("width", "GetOverlayWidthInMeters")

\* overlay.rs:215-227
TexelAspect == OverlayGetF32("texel_aspect", "GetOverlayTexelAspect")

\* overlay.rs:140-157: the slot starts as ColorTint::default(); the colour
\* call writes r, g, b, the alpha call writes a
Tint ==
    \E h \in Overlays, e1 \in OverlayCodes, rgb \in {F32(10), F32(5)} :
        /\ mop' = MgrOp("tint", h, <<>>, <<>>)
        /\ IF ~EVROverlayError_new(e1).ok
             THEN /\ mcalls' = <<MgrCall("GetOverlayColor", h, <<>>, <<>>, e1)>>
                  /\ mres' = MgrErr(EVROverlayError_new(e1).inner)
             ELSE \E e2 \in OverlayCodes, garbage \in {F32(10), NaN} :
                  LET a == IF e2 = VROverlayError_None THEN rtAlpha[h]
                           ELSE garbage IN
                  /\ mcalls' = <<MgrCall("GetOverlayColor", h, <<>>, <<>>, e1),
                                 MgrCall("GetOverlayAlpha", h, <<>>, <<>>, e2)>>
                  /\ mres' = OverlayValue(e2, rgb \o rgb \o rgb \o a)
        /\ UNCHANGED rtAlpha
        /\ UNCHANGED <<gateVars, propVars, wrapVars>>

\* overlay.rs:265-281: origin starts as TrackingUniverseStanding (1);
\* EVROverlayError::new(err).map(|_| origin)
GetTransformAbsolute ==
    \E h \in Overlays, e \in OverlayCodes, origin \in 0..2 :
        /\ mop' = MgrOp("get_transform_absolute", h, <<>>, <<>>)
        /\ mcalls' = <<MgrCall("GetOverlayTransformAbsolute", h, <<>>, <<>>, e)>>
        /\ mres' = OverlayValue(e, <<origin>>)
        /\ UNCHANGED rtAlpha
        /\ UNCHANGED <<gateVars, propVars, wrapVars>>

\* overlay.rs:355-370: parent_overlay starts as 0;
\* EVROverlayError::new(err).map(|_| parent_overlay.into())
GetTransformOverlayRelative ==
    \E h \in Overlays, e \in OverlayCodes, parent \in {0} \cup Overlays :
        /\ mop' = MgrOp("get_transform_overlay_relative", h, <<>>, <<>>)
        /\ mcalls' = <<MgrCall("GetOverlayTransformOverlayRelative", h, <<>>,
                               <<>>, e)>>
        /\ mres' = OverlayValue(e, <<parent>>)
        /\ UNCHANGED rtAlpha
        /\ UNCHANGED <<gateVars, propVars, wrapVars>>

(***************************************************************************)
(* input.rs                                                                *)
(***************************************************************************)
Handles == {1, 2}           \* ActionHandle / InputValueHandle values

\* Result<(), EVRInputError> of EVRInputError::new(err)
InputUnit(e) ==
    IF EVRInputError_new(e).ok THEN MgrOk(<<>>)
    ELSE MgrErr(EVRInputError_new(e).inner)

\* EVRInputError::new(err)?; Ok(value)
InputValue(e, v) ==
    IF EVRInputError_new(e).ok THEN MgrOk(v)
    ELSE MgrErr(EVRInputError_new(e).inner)

\* the getters of input.rs that hand a MaybeUninit struct to one foreign call
\* and read it (assume_init) only after EVRInputError::new(err)?
InputGetData(op, fn) ==
    \E h \in Handles, e \in InputCodes, written \in {<<0>>, <<1>>} :
        /\ mop' = MgrOp(op, h, <<>>, <<>>)
        /\ mcalls' = <<MgrCall(fn, h, <<>>, <<>>, e)>>
        /\ mres' = InputValue(e, written)
        /\ UNCHANGED rtAlpha
        /\ UNCHANGED <<gateVars, propVars, wrapVars>>

\* input.rs:192-208
GetDigitalActionData ==
    InputGetData("get_digital_action_data", "GetDigitalActionData")

\* input.rs:210-231
GetPoseActionDataRelativeToNow ==
    InputGetData("get_pose_action_data_relative_to_now",
                 "GetPoseActionDataRelativeToNow")

\* input.rs:259-274
GetOriginTrackedDeviceInfo ==
    InputGetData("get_origin_tracked_device_info", "GetOriginTrackedDeviceInfo")

\* all sequences over alphabet of length at most n
RECURSIVE SeqsOver(_, _)
SeqsOver(alphabet, n) ==
    IF n = 0 THEN {<<>>}
    ELSE LET shorter == SeqsOver(alphabet, n - 1) IN
         shorter \cup { Append(w, b) : w \in {x \in shorter : Len(x) = n - 1},
                                       b \in alphabet }

\* &str arguments: UTF-8 text, which may hold NUL; bytes of a &Path, which
\* may also hold bytes that are not UTF-8 (255)
StrArgs == SeqsOver({0, 97}, MaxText)
PathArgs == SeqsOver({0, 97, 255}, MaxText)

\* Path::to_string_lossy().as_bytes(): bytes that are not UTF-8 become
\* U+FFFD (EF BF BD), every other byte, NUL included, is kept
RECURSIVE ToStringLossy(_)
ToStringLossy(bytes) ==
    IF bytes = <<>> THEN <<>>
    ELSE (IF Head(bytes) = 255 THEN <<239, 191, 189>> ELSE <<Head(bytes)>>)
         \o ToStringLossy(Tail(bytes))

CString_new_Truncating(bytes) ==
    LET nuls == {i \in 1..Len(bytes) : bytes[i] = 0} IN
    IF nuls = {} THEN [ok |-> TRUE, bytes |-> Append(bytes, 0)]
    ELSE LET pos == CHOOSE i \in nuls : \A j \in nuls : i <= j IN
         [ok |-> TRUE, bytes |-> Append(SubSeq(bytes, 1, pos - 1), 0)]

\* CString::new: Err when the bytes hold a 0, else the bytes with a 0 appended
CString_new(bytes) ==
    IF \E i \in 1..Len(bytes) : bytes[i] = 0
        THEN [ok |-> FALSE, bytes |-> <<>>]
        ELSE [ok |-> TRUE, bytes |-> Append(bytes, 0)]

\* Result::map(|_| unreachable!()) on the result of <domain error>::new
MapUnreachable(r, inner) ==
    IF r.ok THEN MgrPanic ELSE MgrErr(inner)

VRApplicationError_None == "VRApplicationError_None"
VRApplicationError_InvalidParameter == "VRApplicationError_InvalidParameter"
AppCodes == {VRApplicationError_None, "VRApplicationError_InvalidManifest",
             VRApplicationError_InvalidParameter}

\* errors::EVRApplicationError::new, which applications.rs:6 imports
EVRApplicationError_new(err) ==
    IF err = VRApplicationError_None
        THEN [ok |-> TRUE, inner |-> VRApplicationError_None]
        ELSE [ok |-> FALSE, inner |-> err]

\* Result<(), EVRApplicationError> of EVRApplicationError::new(err)
AppUnit(e) ==
    IF EVRApplicationError_new(e).ok THEN MgrOk(<<>>)
    ELSE MgrErr(EVRApplicationError_new(e).inner)

LocalReject_Panics(op) == MgrPanic

\* what each operation returns when CString::new rejects its text argument:
\* input.rs:95, 109, 132-133, 156-157; applications.rs:36-38, 60-62, 77-80
LocalReject(op) ==
    CASE op = "set_action_manifest" -> InputUnit(VRInputError_InvalidParam)
      [] op = "get_action_set_handle" -> MgrErr(VRInputError_InvalidParam)
      [] op \in {"get_action_handle", "get_input_source_handle"} ->
            MapUnreachable(EVRInputError_new(VRInputError_InvalidParam),
                           EVRInputError_new(VRInputError_InvalidParam).inner)
      [] op \in {"add_application_manifest", "remove_application_manifest"} ->
            AppUnit(VRApplicationError_InvalidParameter)
      [] op = "is_application_installed" ->
            MapUnreachable(
                EVRApplicationError_new(VRApplicationError_InvalidParameter),
                EVRApplicationError_new(VRApplicationError_InvalidParameter).inner)

\* input.rs:91-103: set_action_manifest and set_action_manifest_raw
SetActionManifest ==
    \E path \in PathArgs :
        LET c == CString_new(ToStringLossy(path)) IN
        /\ mop' = MgrOp("set_action_manifest", 0, <<>>, path)
        /\ IF ~c.ok
             THEN /\ mcalls' = <<>>
                  /\ mres' = LocalReject("set_action_manifest")
             ELSE \E e \in InputCodes :
                  /\ mcalls' = <<MgrCall("SetActionManifestPath", 0, <<>>,
                                         c.bytes, e)>>
                  /\ mres' = InputUnit(e)
        /\ UNCHANGED rtAlpha
        /\ UNCHANGED <<gateVars, propVars, wrapVars>>

\* get_*_handle and get_*_handle_raw of input.rs: CString::new(name), a handle
\* slot of 0, one foreign call, EVRInputError::new(err)?, Ok(handle)
InputGetHandle(op, fn) ==
    \E name \in StrArgs :
        LET c == CString_new(name) IN
        /\ mop' = MgrOp(op, 0, <<>>, name)
        /\ IF ~c.ok
             THEN /\ mcalls' = <<>>
                  /\ mres' = LocalReject(op)
             ELSE \E e \in InputCodes, handle \in {0} \cup Handles :
                  /\ mcalls' = <<MgrCall(fn, 0, <<>>, c.bytes, e)>>
                  /\ mres' = InputValue(e, <<handle>>)
        /\ UNCHANGED rtAlpha
        /\ UNCHANGED <<gateVars, propVars, wrapVars>>

\* input.rs:105-126
GetActionSetHandle == InputGetHandle("get_action_set_handle", "GetActionSetHandle")

\* input.rs:128-150
GetActionHandle == InputGetHandle("get_action_handle", "GetActionHandle")

\* input.rs:152-174
GetInputSourceHandle ==
    InputGetHandle("get_input_source_handle", "GetInputSourceHandle")

(***************************************************************************)
(* applications.rs                                                         *)
(***************************************************************************)
\* applications.rs:28-54; h is the `temporary` flag
AddApplicationManifest ==
    \E path \in PathArgs, temporary \in {0, 1} :
        LET c == CString_new(ToStringLossy(path)) IN
        /\ mop' = MgrOp("add_application_manifest", temporary, <<>>, path)
        /\ IF ~c.ok
             THEN /\ mcalls' = <<>>
                  /\ mres' = LocalReject("add_application_manifest")
             ELSE \E e \in AppCodes :
                  /\ mcalls' = <<MgrCall("AddApplicationManifest", temporary,
                                         <<>>, c.bytes, e)>>
                  /\ mres' = AppUnit(e)
        /\ UNCHANGED rtAlpha
        /\ UNCHANGED <<gateVars, propVars, wrapVars>>

\* applications.rs:56-71
RemoveApplicationManifest ==
    \E path \in PathArgs :
        LET c == CString_new(ToStringLossy(path)) IN
        /\ mop' = MgrOp("remove_application_manifest", 0, <<>>, path)
        /\ IF ~c.ok
             THEN /\ mcalls' = <<>>
                  /\ mres' = LocalReject("remove_application_manifest")
             ELSE \E e \in AppCodes :
                  /\ mcalls' = <<MgrCall("RemoveApplicationManifest", 0, <<>>,
                                         c.bytes, e)>>
                  /\ mres' = AppUnit(e)
        /\ UNCHANGED rtAlpha
        /\ UNCHANGED <<gateVars, propVars, wrapVars>>

\* applications.rs:73-91: IsApplicationInstalled reports no error code
IsApplicationInstalled ==
    \E key \in StrArgs :
        LET c == CString_new(key) IN
        /\ mop' = MgrOp("is_application_installed", 0, <<>>, key)
        /\ IF ~c.ok
             THEN /\ mcalls' = <<>>
                  /\ mres' = LocalReject("is_application_installed")
             ELSE \E installed \in {0, 1} :
                  /\ mcalls' = <<MgrCall("IsApplicationInstalled", 0, <<>>,
                                         c.bytes, "-")>>
                  /\ mres' = MgrOk(<<installed>>)
        /\ UNCHANGED rtAlpha
        /\ UNCHANGED <<gateVars, propVars, wrapVars>>

(***************************************************************************)
(* overlay.rs: the remaining operations                                    *)
(***************************************************************************)
\* the friendly_name arguments of create_overlay: the empty name, a name that
\* is one NUL and a name of one other byte
FriendlyNames == SeqsOver({0, 97}, 1)

\* overlay.rs:25-41: key.as_ptr() and friendly_name.as_ptr() point at the
\* bytes of the two &str, to which nothing is appended; the call record's
\* text holds the bytes at the key pointer and f those at the friendly_name
\* pointer. The handle slot is read only after a call that reported success.
CreateOverlay ==
    \E key \in StrArgs, friendly_name \in FriendlyNames, e \in OverlayCodes :
        /\ mop' = MgrOp("create_overlay", 0, friendly_name, key)
        /\ mcalls' = <<MgrCall("CreateOverlay", 0, friendly_name, key, e)>>
        /\ IF EVROverlayError_new(e).ok
             THEN \E handle \in Overlays : mres' = MgrOk(<<handle>>)
             ELSE mres' = MgrErr(EVROverlayError_new(e).inner)
        /\ UNCHANGED rtAlpha
        /\ UNCHANGED <<gateVars, propVars, wrapVars>>

\* overlay.rs:43-55; f is is_visible as <<0>> or <<1>>
SetVisibility ==
    \E h \in Overlays, is_visible \in {0, 1}, e \in OverlayCodes :
        /\ mop' = MgrOp("set_visibility", h, <<is_visible>>, <<>>)
        /\ mcalls' = <<MgrCall(IF is_visible = 1 THEN "ShowOverlay"
                               ELSE "HideOverlay", h, <<>>, <<>>, e)>>
        /\ mres' = OverlayUnit(e)
        /\ UNCHANGED rtAlpha
        /\ UNCHANGED <<gateVars, propVars, wrapVars>>

\* overlay.rs:57-59: IsOverlayVisible reports no error code
IsVisible ==
    \E h \in Overlays, visible \in {0, 1} :
        /\ mop' = MgrOp("is_visible", h, <<>>, <<>>)
        /\ mcalls' = <<MgrCall("IsOverlayVisible", h, <<>>, <<>>, "-")>>
        /\ mres' = MgrOk(<<visible>>)
        /\ UNCHANGED rtAlpha
        /\ UNCHANGED <<gateVars, propVars, wrapVars>>

\* the alpha components of the ColorTint values handed to set_tint
TintAlphas == {F32(5), F32(11)}

SetTint_NoShortCircuit ==
    \E h \in Overlays, a \in TintAlphas, e1 \in OverlayCodes,
       e2 \in OverlayCodes :
        /\ mop' = MgrOp("set_tint", h, a, <<>>)
        /\ mcalls' = <<MgrCall("SetOverlayColor", h, F32(10), <<>>, e1),
                       MgrCall("SetOverlayAlpha", h, a, <<>>, e2)>>
        /\ mres' = IF EVROverlayError_new(e1).ok THEN OverlayUnit(e2)
                   ELSE OverlayUnit(e1)
        /\ rtAlpha' = IF e2 = VROverlayError_None
                        THEN [rtAlpha EXCEPT ![h] = a] ELSE rtAlpha
        /\ UNCHANGED <<gateVars, propVars, wrapVars>>

\* overlay.rs:159-174: SetOverlayColor, `?`, SetOverlayAlpha(tint.a), `?`,
\* Ok(()); tint.a is not compared with anything. f is tint.a; r, g and b
\* are 1.0.
SetTint ==
    \E h \in Overlays, a \in TintAlphas, e1 \in OverlayCodes :
        /\ mop' = MgrOp("set_tint", h, a, <<>>)
        /\ IF ~EVROverlayError_new(e1).ok
             THEN /\ mcalls' = <<MgrCall("SetOverlayColor", h, F32(10), <<>>, e1)>>
                  /\ mres' = MgrErr(EVROverlayError_new(e1).inner)
                  /\ rtAlpha' = rtAlpha
             ELSE \E e2 \in OverlayCodes :
                  /\ mcalls' = <<MgrCall("SetOverlayColor", h, F32(10), <<>>, e1),
                                 MgrCall("SetOverlayAlpha", h, a, <<>>, e2)>>
                  /\ mres' = OverlayUnit(e2)
                  /\ rtAlpha' = IF e2 = VROverlayError_None
                                  THEN [rtAlpha EXCEPT ![h] = a] ELSE rtAlpha
        /\ UNCHANGED <<gateVars, propVars, wrapVars>>

\* the setters of overlay.rs that only marshal their arguments, make one
\* foreign call and return EVROverlayError::new(err): overlay.rs:127-138,
\* 176-187, 189-213, 232-241, 246-262, 286-303, 335-350, 372-383
ForwardSetters ==
    { <<"set_width", "SetOverlayWidthInMeters">>,
      <<"set_image", "SetOverlayFromFile">>,
      <<"set_raw_data", "SetOverlayRaw">>,
      <<"set_texel_aspect", "SetOverlayTexelAspect">>,
      <<"set_transform_absolute", "SetOverlayTransformAbsolute">>,
      <<"set_transform_tracked_device_relative",
        "SetOverlayTransformTrackedDeviceRelative">>,
      <<"set_transform_overlay_relatve", "SetOverlayTransformOverlayRelative">>,
      <<"set_texture_bounds", "SetOverlayTextureBounds">> }

OverlayForward ==
    \E p \in ForwardSetters, h \in Overlays, e \in OverlayCodes :
        /\ mop' = MgrOp(p[1], h, <<>>, <<>>)
        /\ mcalls' = <<MgrCall(p[2], h, <<>>, <<>>, e)>>
        /\ mres' = OverlayUnit(e)
        /\ UNCHANGED rtAlpha
        /\ UNCHANGED <<gateVars, propVars, wrapVars>>

\* overlay.rs:308-330: the index slot starts as 0 and is read only after
\* EVROverlayError::new(err)?; f is the index the runtime wrote
GetTransformTrackedDeviceRelative ==
    \E h \in Overlays, e \in OverlayCodes, index \in IndexValues :
        /\ mop' = MgrOp("get_transform_tracked_device_relative", h, <<>>, <<>>)
        /\ mcalls' = <<MgrCall("GetOverlayTransformTrackedDeviceRelative", h,
                               <<index>>, <<>>, e)>>
        /\ mres' =
             IF ~EVROverlayError_new(e).ok
               THEN MgrErr(EVROverlayError_new(e).inner)
             ELSE IF TrackedDeviceIndex_new(index).ok
               THEN MgrOk(<<TrackedDeviceIndex_new(index).inner>>)
             ELSE MapUnreachable(
                    EVROverlayError_new("VROverlayError_RequestFailed"),
                    EVROverlayError_new("VROverlayError_RequestFailed").inner)
        /\ UNCHANGED rtAlpha
        /\ UNCHANGED <<gateVars, propVars, wrapVars>>

\* input.rs:241: vec![0u8; 100]
NameBuffer == [i \in 1..NameBufLen |-> 0]

\* input.rs:246: the buffer length handed to GetOriginLocalizedName
NameLenArg == Len(NameBuffer) - 1

\* input.rs:235-257: the runtime writes at most NameLenArg bytes at the start
\* of the buffer; after EVRInputError::new(err)? the whole vector goes through
\* CString::from_vec_with_nul(..).expect(..), into_string and, for bytes that
\* are not UTF-8, to_string_lossy. text is what the runtime wrote, f the
\* length argument.
GetOriginLocalizedName ==
    \E h \in Handles, e \in InputCodes, written \in SeqsOver({0, 97}, NameLenArg) :
        LET name == Overwrite(NameBuffer, written) IN
        /\ mop' = MgrOp("get_origin_localized_name", h, <<>>, <<>>)
        /\ mcalls' = <<MgrCall("GetOriginLocalizedName", h, <<NameLenArg>>,
                               written, e)>>
        /\ mres' =
             IF ~EVRInputError_new(e).ok
               THEN MgrErr(EVRInputError_new(e).inner)
             ELSE IF ~FromVecWithNul(name).ok THEN MgrPanic
             ELSE MgrOk(ToStringLossy(SubSeq(name, 1, Len(name) - 1)))
        /\ UNCHANGED rtAlpha
        /\ UNCHANGED <<gateVars, propVars, wrapVars>>

\* the operations of the overlay manager and the data getters of the input
\* manager
NextMgr ==
    \/ SetOpacity
    \/ Opacity
    \/ SetCurvature
    \/ Curvature
    \/ Width
    \/ TexelAspect
    \/ Tint
    \/ GetTransformAbsolute
    \/ GetTransformOverlayRelative
    \/ GetDigitalActionData
    \/ GetPoseActionDataRelativeToNow
    \/ GetOriginTrackedDeviceInfo
    \/ CreateOverlay
    \/ SetVisibility
    \/ IsVisible
    \/ SetTint
    \/ OverlayForward
    \/ GetTransformTrackedDeviceRelative

SpecMgr == Init /\ [][NextMgr]_vars

\* the operations of the input and applications managers that exchange text
\* with the runtime
NextText ==
    \/ SetActionManifest
    \/ GetActionSetHandle
    \/ GetActionHandle
    \/ GetInputSourceHandle
    \/ AddApplicationManifest
    \/ RemoveApplicationManifest
    \/ IsApplicationInstalled
    \/ GetOriginLocalizedName

SpecText == Init /\ [][NextText]_vars

(***************************************************************************)
(* Claims about the manager operations                                     *)
(***************************************************************************)
\* the closed interval [0,1]; NaN is outside
InClosedUnitInterval(x) == x[1] = 0 /\ x[2] \in 0..10

\* C15: set_opacity calls SetOverlayAlpha exactly when alpha is in [0,1]:
\* outside (or NaN) it fails with no foreign call, inside it makes one call
\* for that overlay with that alpha; an opacity() that follows a successful
\* set_opacity on the same overlay and succeeds returns the alpha set.
C15_SetOpacityCalls ==
    mop.op = "set_opacity" =>
        /\ InClosedUnitInterval(mop.f) <=> Len(mcalls) > 0
        /\ ~InClosedUnitInterval(mop.f) => mres.tag \notin {"Ok", "None"}
        /\ InClosedUnitInterval(mop.f) =>
              /\ Len(mcalls) = 1
              /\ mcalls[1].fn = "SetOverlayAlpha"
              /\ mcalls[1].h = mop.h
              /\ mcalls[1].f = mop.f

C15_RoundTrip ==
    [][ (/\ mop.op = "set_opacity" /\ mres.tag = "Ok"
         /\ mop'.op = "opacity" /\ mop'.h = mop.h /\ mres'.tag = "Ok")
        => mres'.val = mop.f ]_vars

C15_SetOpacityRange == []C15_SetOpacityCalls /\ C15_RoundTrip

C15_Witness ==
    /\ mop.op = "opacity" /\ mop.h = 2
    /\ mres = MgrOk(F32(5))
    /\ rtAlpha[1] = F32(0)

\* C16: every SetOverlayCurvature call carries a curvature in [0,1]; a
\* set_curvature outside [0,1] makes no foreign call.
C16_CurvatureChecked ==
    /\ \A i \in 1..Len(mcalls) :
          mcalls[i].fn = "SetOverlayCurvature" => InClosedUnitInterval(mcalls[i].f)
    /\ (mop.op = "set_curvature" /\ ~InClosedUnitInterval(mop.f)) =>
          mcalls = <<>> /\ mres.tag # "Ok"

\* C17 (as claimed): an out-of-range opacity comes back as a failure value of
\* the call, not as a panic and not as success.
C17_PreconditionFailureReturned ==
    (mop.op = "set_opacity" /\ ~InClosedUnitInterval(mop.f)) =>
        mres.tag = "Err"

\* C17 (amended): set_opacity panics, with no foreign call, exactly when
\* alpha is outside [0,1]; every Err it returns is the code its one foreign
\* call reported.
C17_OpacityPreconditionPanics ==
    mop.op = "set_opacity" =>
        /\ mres.tag = "Panic" <=> ~InClosedUnitInterval(mop.f)
        /\ mres.tag = "Panic" => mcalls = <<>>
        /\ mres.tag = "Err" =>
              /\ Len(mcalls) = 1
              /\ mcalls[1].err # VROverlayError_None
              /\ mres.err = mcalls[1].err

C17_Witness ==
    /\ mop.op = "set_opacity" /\ mop.f = NaN
    /\ mres.tag = "Panic" /\ mcalls = <<>>

HasNul(bytes) == \E i \in 1..Len(bytes) : bytes[i] = 0

TextOps == {"set_action_manifest", "get_action_set_handle", "get_action_handle",
            "get_input_source_handle", "add_application_manifest",
            "remove_application_manifest", "is_application_installed"}

\* C18: a text-taking operation whose argument holds an interior NUL returns
\* a failure and makes no foreign call.
C18_MalformedTextRejectedLocally ==
    (mop.op \in TextOps /\ HasNul(mop.text)) =>
        /\ mcalls = <<>>
        /\ mres.tag = "Err"

C18_Witness ==
    /\ mop.op = "get_action_handle" /\ mop.text = <<97, 0>>
    /\ mcalls = <<>>
    /\ mres = MgrErr("VRInputError_InvalidParam")

ForeignSuccess == {"VROverlayError_None", "VRInputError_None",
                   "VRApplicationError_None", "-"}

\* C19 (as claimed): what an operation returns for a malformed text argument
\* differs from everything it returns after its foreign call reported an
\* error.
C19_LocalFaultDistinguishable ==
    (mop.op \in TextOps /\ Len(mcalls) = 1
        /\ mcalls[1].err \notin ForeignSuccess) =>
        mres # LocalReject(mop.op)

InvalidParamOf(op) ==
    IF op \in {"add_application_manifest", "remove_application_manifest",
               "is_application_installed"}
        THEN "VRApplicationError_InvalidParameter"
        ELSE "VRInputError_InvalidParam"

\* C19 (amended): a malformed text argument yields, with no foreign call, Err
\* of the domain's own invalid-parameter code; that is what the operation
\* returns when its foreign call reports that code, and differs from what it
\* returns for every other reported code.
C19_LocalFaultIsInvalidParam ==
    mop.op \in TextOps =>
        /\ HasNul(mop.text) =>
              /\ mcalls = <<>>
              /\ mres.tag = "Err" /\ mres.err = InvalidParamOf(mop.op)
              /\ mres.val = <<>>
        /\ (Len(mcalls) = 1 /\ mcalls[1].err \notin ForeignSuccess) =>
              /\ mres.tag = "Err" /\ mres.err = mcalls[1].err
              /\ mres.err = InvalidParamOf(mop.op) <=> mres = LocalReject(mop.op)

C19_Witness ==
    /\ mop.op = "get_action_set_handle" /\ ~HasNul(mop.text)
    /\ Len(mcalls) = 1 /\ mcalls[1].err = "VRInputError_InvalidParam"
    /\ mres = LocalReject("get_action_set_handle")

GetterOps == {"curvature", "opacity", "width", "texel_aspect", "tint",
              "get_transform_absolute", "get_transform_overlay_relative",
              "get_digital_action_data", "get_pose_action_data_relative_to_now",
              "get_origin_tracked_device_info"}

\* C20: when a foreign call of a getter reports a non-success code, that call
\* is the getter's last and the getter returns Err of that code, never Ok.
C20_NoDefaultOnError ==
    (mop.op \in GetterOps
        /\ \E i \in 1..Len(mcalls) : mcalls[i].err \notin ForeignSuccess) =>
        /\ mres.tag = "Err"
        /\ mres.err = mcalls[Len(mcalls)].err
        /\ mres.err \notin ForeignSuccess
        /\ \A i \in 1..(Len(mcalls) - 1) : mcalls[i].err \in ForeignSuccess

C20_Witness ==
    /\ mop.op = "tint"
    /\ Len(mcalls) = 2
    /\ mcalls[1].err = "VROverlayError_None"
    /\ mcalls[2].err = "VROverlayError_UnknownOverlay"
    /\ mres = MgrErr("VROverlayError_UnknownOverlay")

\* the foreign calls that take a pointer to text
TextCalls == {"CreateOverlay", "SetActionManifestPath", "GetActionSetHandle",
              "GetActionHandle", "GetInputSourceHandle",
              "AddApplicationManifest", "RemoveApplicationManifest",
              "IsApplicationInstalled"}

NulTerminated(bytes) == Len(bytes) > 0 /\ bytes[Len(bytes)] = 0

\* C21: every text argument handed to a foreign call ends in a NUL byte;
\* create_overlay hands over terminated forms of key and friendly_name.
C21_TextArgsTerminated ==
    \A i \in 1..Len(mcalls) :
        mcalls[i].fn \in TextCalls =>
            /\ NulTerminated(mcalls[i].text)
            /\ mcalls[i].fn = "CreateOverlay" => NulTerminated(mcalls[i].f)

OverlayOps == {"create_overlay", "set_visibility", "is_visible",
               "set_curvature", "curvature", "set_opacity", "opacity", "width",
               "texel_aspect", "tint", "set_tint", "get_transform_absolute",
               "get_transform_overlay_relative",
               "get_transform_tracked_device_relative"}
               \cup { p[1] : p \in ForwardSetters }

PairedOps == {"tint", "set_tint"}

\* C22: an overlay operation that passes its local checks makes exactly one
\* foreign call (set_visibility: ShowOverlay for true, HideOverlay for
\* false), except tint and set_tint, which call colour then alpha, the alpha
\* call only after a successful colour call; the first error reported is the
\* result.
C22_OneCallOrColorThenAlpha ==
    (mop.op \in OverlayOps /\ mres.tag # "Panic") =>
        /\ mop.op \notin PairedOps => Len(mcalls) = 1
        /\ mop.op = "set_visibility" =>
              mcalls[1].fn = (IF mop.f = <<1>> THEN "ShowOverlay"
                              ELSE "HideOverlay")
        /\ mop.op \in PairedOps =>
              /\ Len(mcalls) \in {1, 2}
              /\ mcalls[1].fn = (IF mop.op = "tint" THEN "GetOverlayColor"
                                 ELSE "SetOverlayColor")
              /\ Len(mcalls) = 2 <=> mcalls[1].err = "VROverlayError_None"
              /\ Len(mcalls) = 2 =>
                    mcalls[2].fn = (IF mop.op = "tint" THEN "GetOverlayAlpha"
                                    ELSE "SetOverlayAlpha")
        /\ \A i \in 1..Len(mcalls) :
              (/\ mcalls[i].err \notin {"VROverlayError_None", "-"}
               /\ \A j \in 1..(i - 1) : mcalls[j].err = "VROverlayError_None")
              => mres = MgrErr(mcalls[i].err)

C22_Witness ==
    /\ mop.op = "set_tint"
    /\ Len(mcalls) = 2
    /\ mcalls[1].fn = "SetOverlayColor" /\ mcalls[1].err = "VROverlayError_None"
    /\ mcalls[2].fn = "SetOverlayAlpha"
    /\ mcalls[2].err = "VROverlayError_RequestFailed"
    /\ mres = MgrErr("VROverlayError_RequestFailed")

\* C23: every SetOverlayAlpha call carries an alpha in [0,1]; set_tint with
\* an alpha outside [0,1] fails with no foreign call.
C23_AlphaCallsInRange ==
    /\ \A i \in 1..Len(mcalls) :
          mcalls[i].fn = "SetOverlayAlpha" => InClosedUnitInterval(mcalls[i].f)
    /\ (mop.op = "set_tint" /\ ~InClosedUnitInterval(mop.f)) =>
          mcalls = <<>> /\ mres.tag # "Ok"

\* C24: when GetOriginLocalizedName reports success and has written a name
\* without NUL, of 0 up to (buffer length - 2) bytes, followed by a NUL,
\* get_origin_localized_name returns Ok with that name and does not panic.
C24_LocalizedNameReturned ==
    (/\ mop.op = "get_origin_localized_name"
     /\ mcalls[1].err = "VRInputError_None"
     /\ NulTerminated(mcalls[1].text)
     /\ ~HasNul(SubSeq(mcalls[1].text, 1, Len(mcalls[1].text) - 1))
     /\ Len(mcalls[1].text) - 1 <= NameBufLen - 2) =>
        mres = MgrOk(SubSeq(mcalls[1].text, 1, Len(mcalls[1].text) - 1))

\* C25: get_transform_tracked_device_relative returns Err of the code the
\* foreign call reported, Err(VROverlayError_RequestFailed) when the call
\* succeeded with the invalid index, and otherwise Ok of the index written;
\* it never returns Ok of the invalid index and never panics.
C25_NoInvalidIndexReturned ==
    mop.op = "get_transform_tracked_device_relative" =>
        /\ Len(mcalls) = 1
        /\ mres.tag # "Panic"
        /\ mcalls[1].err # "VROverlayError_None" => mres = MgrErr(mcalls[1].err)
        /\ (/\ mcalls[1].err = "VROverlayError_None"
            /\ mcalls[1].f = <<2 ^ IndexBits - 1>>) =>
              mres = MgrErr("VROverlayError_RequestFailed")
        /\ (/\ mcalls[1].err = "VROverlayError_None"
            /\ mcalls[1].f # <<2 ^ IndexBits - 1>>) =>
              mres = MgrOk(mcalls[1].f)
        /\ mres.tag = "Ok" => mres.val # <<2 ^ IndexBits - 1>>

C25_Witness ==
    /\ mop.op = "get_transform_tracked_device_relative"
    /\ mcalls[1].err = "VROverlayError_None"
    /\ mcalls[1].f = <<2 ^ IndexBits - 1>>
    /\ mres = MgrErr("VROverlayError_RequestFailed")

====
